---------------------------- MODULE Spec2Model ----------------------------
(***************************************************************************)
(* Asset registry service (src/api_routes.py) over its PostgreSQL store    *)
(* (src/database.py).                                                      *)
(*                                                                         *)
(* The store is the three tables pc_master, survey_records and             *)
(* user_change_history with the constraints database.py declares: the      *)
(* unique index on pc_master.asset_number and the two foreign keys         *)
(* survey_records.asset_number -> pc_master.asset_number and               *)
(* user_change_history.asset_number -> pc_master.asset_number (immediate,  *)
(* NO ACTION).                                                             *)
(*                                                                         *)
(* Every mutating handler is two steps of a worker: the handler body up    *)
(* to db.commit() (its SELECTs, its early HTTP errors, the statements it   *)
(* executes in the open transaction), and db.commit() itself (the ORM      *)
(* flush and the COMMIT, or the rollback on an IntegrityError).  Workers   *)
(* are server processes sharing the store; their steps interleave.  The    *)
(* read-only handlers are operators over the committed tables.             *)
(*                                                                         *)
(* Time is counted in half days.  datetime.utcnow() is the tick itself,    *)
(* date.today() is the date of the tick shifted by the server's time zone. *)
(* The timestamp columns registered_at, last_updated_at, completed_at and  *)
(* changed_at are written but never read by a handler's logic and are left *)
(* out.                                                                    *)
(***************************************************************************)
EXTENDS Integers, Sequences, FiniteSets, TLC

VARIABLES
    pc_master,            \* table pc_master: row id = index
    survey_records,       \* table survey_records: row id = index
    user_change_history,  \* table user_change_history: row id = index
    sess,                 \* per worker: the request in flight (open Session)
    last,                 \* the outcome the step just taken answered with, if any
    requests,             \* how many requests the service has accepted so far
    now,                  \* the UTC clock, in half days
    tz                    \* the server's offset from UTC, in half days

vars == <<pc_master, survey_records, user_change_history, sess, last,
          requests, now, tz>>

-----------------------------------------------------------------------------
(* Bounds and input domains *)

MaxRequests == 4
MaxTime == 2

Workers == {1, 2}
AssetNumbers == {"A1", "A2"}
EmployeeNumbers == {"E1", "E2"}
PcManagementNumbers == {"M1"}
LocationNames == {"L1"}
TzOffsets == {0, 1}

\* Optional[str] = None of PCUpdateInfoRequest
None == "None"

Idle == [op |-> "idle"]

-----------------------------------------------------------------------------
(* Clock *)

\* func.date(SurveyRecord.survey_date): the date part of a stored UTC timestamp
func_date(t) == t \div 2

\* date.today(): the server's local date
date_today == (now + tz) \div 2

\* datetime.utcnow()
utcnow == now

-----------------------------------------------------------------------------
(* Queries *)

Min(S) == CHOOSE i \in S : \A j \in S : i <= j

\* Query.first(): a row id, or 0 for None
first(S) == IF S = {} THEN 0 ELSE Min(S)

\* db.query(PCMaster).filter(asset_number == n, is_deleted == False).first()
ActivePc(n) ==
    first({i \in DOMAIN pc_master :
              pc_master[i].asset_number = n /\ ~pc_master[i].is_deleted})

\* db.query(PCMaster).filter(asset_number == n).first()
AnyPc(n) == first({i \in DOMAIN pc_master : pc_master[i].asset_number = n})

\* db.query(SurveyRecord).filter(asset_number == n, func.date(survey_date) == d).first()
SurveyOn(n, d) ==
    first({i \in DOMAIN survey_records :
              survey_records[i].asset_number = n
              /\ func_date(survey_records[i].survey_date) = d})

-----------------------------------------------------------------------------
(* Store constraints *)

\* a pc_master table created without the unique index
UniqueOkNoIndex(self, n) == TRUE

\* unique index on pc_master.asset_number: may row `self` (0: a new row) take n?
UniqueOk(self, n) ==
    \A i \in DOMAIN pc_master : i # self => pc_master[i].asset_number # n

\* foreign key of survey_records / user_change_history: child value n needs a parent
FkParentOk(n) == \E i \in DOMAIN pc_master : pc_master[i].asset_number = n

\* foreign key, parent side: no child row may be left referencing key n
FkNoChild(surveys, changes, n) ==
    /\ \A i \in DOMAIN surveys : surveys[i].asset_number # n
    /\ \A i \in DOMAIN changes : changes[i].asset_number # n

\* ORM flush of one attribute: the column is written only when the handler
\* changed it away from the value it loaded
Flushed(current, loaded, assigned) ==
    IF assigned # loaded THEN assigned ELSE current

\* the next request goes to the first idle worker (workers are identical)
Accept(w) ==
    /\ sess[w] = Idle
    /\ \A v \in Workers : v < w => sess[v] # Idle
    /\ requests < MaxRequests
    /\ requests' = requests + 1

\* the handler's return value {"success": True, "message": ...}
Success(message) == [status |-> 200, detail |-> message]

\* raise HTTPException(status_code, detail)
HTTPException(status_code, detail) == [status |-> status_code, detail |-> detail]

\* an IntegrityError the handler does not catch: 500, the transaction rolled back
IntegrityError(constraint) == [status |-> 500, detail |-> constraint]

\* the step sent no response (the request is still being handled, or time passed)
NoResponse == [status |-> 0, detail |-> "none"]

\* PCMaster(asset_number=..., ...): is_deleted takes its column default
PCMaster(request) ==
    [asset_number |-> request.asset_number,
     pc_management_number |-> request.pc_management_number,
     location_name |-> request.location_name,
     employee_number |-> request.employee_number,
     is_deleted |-> FALSE]

\* SurveyRecord(asset_number=..., survey_date=...)
SurveyRecord(asset_number, survey_date) ==
    [asset_number |-> asset_number, survey_date |-> survey_date]

\* the history row with its two employee numbers passed the wrong way round
UserChangeHistorySwapped(asset_number, old_employee_number, new_employee_number) ==
    [asset_number |-> asset_number,
     old_employee_number |-> new_employee_number,
     new_employee_number |-> old_employee_number]

\* UserChangeHistory(asset_number=..., old_employee_number=..., new_employee_number=...)
UserChangeHistory(asset_number, old_employee_number, new_employee_number) ==
    [asset_number |-> asset_number,
     old_employee_number |-> old_employee_number,
     new_employee_number |-> new_employee_number]

-----------------------------------------------------------------------------
Init ==
    /\ pc_master = <<>>
    /\ survey_records = <<>>
    /\ user_change_history = <<>>
    /\ sess = [w \in Workers |-> Idle]
    /\ last = NoResponse
    /\ requests = 0
    /\ now = 0
    /\ tz \in TzOffsets

Tick ==
    /\ now < MaxTime
    /\ now' = now + 1
    /\ last' = NoResponse
    /\ UNCHANGED <<pc_master, survey_records, user_change_history, sess, requests, tz>>

-----------------------------------------------------------------------------
(* POST /api/v1/pc/register *)

register_pc(w, request) ==
    /\ Accept(w)
    /\ LET existing == ActivePc(request.asset_number) IN
       IF existing # 0
       THEN IF pc_master[existing].is_deleted
            THEN /\ sess' = [sess EXCEPT ![w] =
                        [op |-> "register_pc", request |-> request,
                         existing |-> existing, loaded |-> pc_master[existing]]]
                 /\ last' = NoResponse
            ELSE /\ last' = HTTPException(400, "asset number already registered")
                 /\ UNCHANGED sess
       ELSE /\ sess' = [sess EXCEPT ![w] =
                   [op |-> "register_pc", request |-> request,
                    existing |-> 0, loaded |-> None]]
            /\ last' = NoResponse
    /\ UNCHANGED <<pc_master, survey_records, user_change_history, now, tz>>

register_pc_commit(w) ==
    /\ sess[w].op = "register_pc"
    /\ LET s == sess[w]
           request == s.request
       IN
       IF s.existing # 0
       THEN \* revival of the loaded row
            /\ pc_master' = [pc_master EXCEPT ![s.existing] =
                   [@ EXCEPT
                      !.is_deleted = Flushed(@, s.loaded.is_deleted, FALSE),
                      !.pc_management_number =
                          Flushed(@, s.loaded.pc_management_number,
                                  request.pc_management_number),
                      !.location_name =
                          Flushed(@, s.loaded.location_name, request.location_name),
                      !.employee_number =
                          Flushed(@, s.loaded.employee_number,
                                  request.employee_number)]]
            /\ last' = Success("pc revived")
       ELSE IF UniqueOk(0, request.asset_number)
            THEN /\ pc_master' = Append(pc_master, PCMaster(request))
                 /\ last' = Success("pc registered")
            ELSE /\ last' = IntegrityError("ix_pc_master_asset_number")
                 /\ UNCHANGED pc_master
    /\ sess' = [sess EXCEPT ![w] = Idle]
    /\ UNCHANGED <<survey_records, user_change_history, requests, now, tz>>

PCRegisterRequest ==
    [asset_number : AssetNumbers, pc_management_number : PcManagementNumbers,
     location_name : LocationNames, employee_number : EmployeeNumbers]

-----------------------------------------------------------------------------
(* PUT /api/v1/pc/{asset_number}/user *)

update_user(w, asset_number, request) ==
    /\ Accept(w)
    /\ LET pc == ActivePc(asset_number) IN
       IF pc = 0
       THEN /\ last' = HTTPException(404, "pc not found")
            /\ UNCHANGED sess
       ELSE /\ sess' = [sess EXCEPT ![w] =
                   [op |-> "update_user", asset_number |-> asset_number,
                    pc |-> pc, loaded |-> pc_master[pc],
                    history |->
                        UserChangeHistory(asset_number,
                                          pc_master[pc].employee_number,
                                          request.new_employee_number)]]
            /\ last' = NoResponse
    /\ UNCHANGED <<pc_master, survey_records, user_change_history, now, tz>>

update_user_commit(w) ==
    /\ sess[w].op = "update_user"
    /\ LET s == sess[w] IN
       IF FkParentOk(s.history.asset_number)
       THEN /\ pc_master' = [pc_master EXCEPT ![s.pc].employee_number =
                   Flushed(@, s.loaded.employee_number,
                           s.history.new_employee_number)]
            /\ user_change_history' = Append(user_change_history, s.history)
            /\ last' = Success("user changed")
       ELSE /\ last' = IntegrityError("user_change_history_asset_number_fkey")
            /\ UNCHANGED <<pc_master, user_change_history>>
    /\ sess' = [sess EXCEPT ![w] = Idle]
    /\ UNCHANGED <<survey_records, requests, now, tz>>

PCUpdateUserRequest == [new_employee_number : EmployeeNumbers]

-----------------------------------------------------------------------------
(* PUT /api/v1/admin/pc/{asset_number}/info *)

\* row ids hit by  UPDATE <table> SET asset_number = :new WHERE asset_number = :old
Matching(table, old) == {i \in DOMAIN table : table[i].asset_number = old}

\* the same UPDATE on tables created without the foreign keys
CascadeFkOkNoConstraint(table, old, new) == TRUE

\* the foreign-key check of that UPDATE statement
CascadeFkOk(table, old, new) == Matching(table, old) # {} => FkParentOk(new)

Rewritten(table, ids, new) ==
    [i \in DOMAIN table |->
        IF i \in ids THEN [table[i] EXCEPT !.asset_number = new] ELSE table[i]]

\* `if request.x: pc.x = request.x`
Assigned(loaded, value) == IF value # None THEN value ELSE loaded

update_pc_info(w, asset_number, request) ==
    /\ Accept(w)
    /\ LET pc == ActivePc(asset_number)
           new == request.new_asset_number
           rename == new # None /\ new # asset_number
       IN
       IF pc = 0
       THEN /\ last' = HTTPException(404, "pc not found")
            /\ UNCHANGED sess
       ELSE IF rename /\ AnyPc(new) # 0
       THEN /\ last' = HTTPException(400, "new asset number already exists")
            /\ UNCHANGED sess
       ELSE IF rename /\ ~CascadeFkOk(survey_records, asset_number, new)
       THEN /\ last' = IntegrityError("survey_records_asset_number_fkey")
            /\ UNCHANGED sess
       ELSE IF rename /\ ~CascadeFkOk(user_change_history, asset_number, new)
       THEN /\ last' = IntegrityError("user_change_history_asset_number_fkey")
            /\ UNCHANGED sess
       ELSE /\ sess' = [sess EXCEPT ![w] =
                   [op |-> "update_pc_info", asset_number |-> asset_number,
                    pc |-> pc, loaded |-> pc_master[pc],
                    assigned |->
                        [asset_number |-> IF rename THEN new ELSE asset_number,
                         pc_management_number |->
                             Assigned(pc_master[pc].pc_management_number,
                                      request.pc_management_number),
                         location_name |->
                             Assigned(pc_master[pc].location_name,
                                      request.location_name),
                         employee_number |->
                             Assigned(pc_master[pc].employee_number,
                                      request.employee_number)],
                    surveys |-> IF rename
                                THEN Matching(survey_records, asset_number) ELSE {},
                    changes |-> IF rename
                                THEN Matching(user_change_history, asset_number)
                                ELSE {}]]
            /\ last' = NoResponse
    /\ UNCHANGED <<pc_master, survey_records, user_change_history, now, tz>>

update_pc_info_commit(w) ==
    /\ sess[w].op = "update_pc_info"
    /\ LET s == sess[w]
           new == s.assigned.asset_number
           rename == new # s.loaded.asset_number
           surveys == Rewritten(survey_records, s.surveys, new)
           changes == Rewritten(user_change_history, s.changes, new)
           key == pc_master[s.pc].asset_number
           keyOk == UniqueOk(s.pc, new) /\ FkNoChild(surveys, changes, key)
       IN
       IF rename /\ ~keyOk
       THEN /\ last' = IntegrityError("pc_master.asset_number")
            /\ UNCHANGED <<pc_master, survey_records, user_change_history>>
       ELSE /\ pc_master' = [pc_master EXCEPT ![s.pc] =
                   [@ EXCEPT
                      !.asset_number =
                          Flushed(@, s.loaded.asset_number, new),
                      !.pc_management_number =
                          Flushed(@, s.loaded.pc_management_number,
                                  s.assigned.pc_management_number),
                      !.location_name =
                          Flushed(@, s.loaded.location_name,
                                  s.assigned.location_name),
                      !.employee_number =
                          Flushed(@, s.loaded.employee_number,
                                  s.assigned.employee_number)]]
            /\ survey_records' = surveys
            /\ user_change_history' = changes
            /\ last' = Success("pc info updated")
    /\ sess' = [sess EXCEPT ![w] = Idle]
    /\ UNCHANGED <<requests, now, tz>>

PCUpdateInfoRequest ==
    [new_asset_number : AssetNumbers \cup {None},
     pc_management_number : PcManagementNumbers \cup {None},
     location_name : LocationNames \cup {None},
     employee_number : EmployeeNumbers \cup {None}]

-----------------------------------------------------------------------------
(* POST /api/v1/survey/complete *)

complete_survey(w, request) ==
    /\ Accept(w)
    /\ LET pc == ActivePc(request.asset_number)
           today == date_today
           existing == SurveyOn(request.asset_number, today)
       IN
       IF pc = 0
       THEN /\ last' = HTTPException(404, "pc not found")
            /\ UNCHANGED sess
       ELSE IF existing # 0
       THEN /\ last' = HTTPException(400, "already surveyed today")
            /\ UNCHANGED sess
       ELSE /\ sess' = [sess EXCEPT ![w] =
                   [op |-> "complete_survey",
                    survey |-> SurveyRecord(request.asset_number, utcnow)]]
            /\ last' = NoResponse
    /\ UNCHANGED <<pc_master, survey_records, user_change_history, now, tz>>

complete_survey_commit(w) ==
    /\ sess[w].op = "complete_survey"
    /\ LET s == sess[w] IN
       IF FkParentOk(s.survey.asset_number)
       THEN /\ survey_records' = Append(survey_records, s.survey)
            /\ last' = Success("survey completed")
       ELSE /\ last' = IntegrityError("survey_records_asset_number_fkey")
            /\ UNCHANGED survey_records
    /\ sess' = [sess EXCEPT ![w] = Idle]
    /\ UNCHANGED <<pc_master, user_change_history, requests, now, tz>>

SurveyCompleteRequest == [asset_number : AssetNumbers]

-----------------------------------------------------------------------------
(* DELETE /api/v1/admin/pc/{asset_number} *)

delete_pc(w, asset_number) ==
    /\ Accept(w)
    /\ LET pc == ActivePc(asset_number) IN
       IF pc = 0
       THEN /\ last' = HTTPException(404, "pc not found")
            /\ UNCHANGED sess
       ELSE /\ sess' = [sess EXCEPT ![w] =
                   [op |-> "delete_pc", asset_number |-> asset_number,
                    pc |-> pc, loaded |-> pc_master[pc]]]
            /\ last' = NoResponse
    /\ UNCHANGED <<pc_master, survey_records, user_change_history, now, tz>>

\* a delete that also removes the asset's survey rows
delete_pc_commit_with_surveys(w) ==
    /\ sess[w].op = "delete_pc"
    /\ LET s == sess[w]
           kept(row) == row.asset_number # s.asset_number
       IN
       /\ pc_master' = [pc_master EXCEPT ![s.pc].is_deleted =
              Flushed(@, s.loaded.is_deleted, TRUE)]
       /\ survey_records' = SelectSeq(survey_records, kept)
       /\ last' = Success("pc deleted")
    /\ sess' = [sess EXCEPT ![w] = Idle]
    /\ UNCHANGED <<user_change_history, requests, now, tz>>

delete_pc_commit(w) ==
    /\ sess[w].op = "delete_pc"
    /\ LET s == sess[w] IN
       /\ pc_master' = [pc_master EXCEPT ![s.pc].is_deleted =
              Flushed(@, s.loaded.is_deleted, TRUE)]
       /\ last' = Success("pc deleted")
    /\ sess' = [sess EXCEPT ![w] = Idle]
    /\ UNCHANGED <<survey_records, user_change_history, requests, now, tz>>

-----------------------------------------------------------------------------
(* Read-only handlers, over the committed tables *)

ActiveIds == {i \in DOMAIN pc_master : ~pc_master[i].is_deleted}

\* PCResponse.from_orm(pc)
PCResponse(i) ==
    [id |-> i,
     asset_number |-> pc_master[i].asset_number,
     pc_management_number |-> pc_master[i].pc_management_number,
     location_name |-> pc_master[i].location_name,
     employee_number |-> pc_master[i].employee_number]

\* GET /api/v1/pc/{asset_number}
get_pc_info(asset_number) ==
    LET pc == ActivePc(asset_number) IN
    IF pc = 0 THEN HTTPException(404, "pc not found") ELSE PCResponse(pc)

\* GET /api/v1/admin/pcs: one entry per non-deleted row
get_all_pcs ==
    {[id |-> i,
      asset_number |-> pc_master[i].asset_number,
      pc_management_number |-> pc_master[i].pc_management_number,
      location_name |-> pc_master[i].location_name,
      employee_number |-> pc_master[i].employee_number,
      surveyed_today |-> SurveyOn(pc_master[i].asset_number, date_today) # 0]
     : i \in ActiveIds}

\* round(num / den * 100, 2), in hundredths of a percent; Python 3 rounds a tie
\* to the even neighbour
Round2(num, den) ==
    LET n == num * 10000
        q == n \div den
        r == n % den
    IN  IF 2 * r < den THEN q
        ELSE IF 2 * r > den THEN q + 1
        ELSE IF q % 2 = 0 THEN q ELSE q + 1

\* the survey status whose join does not filter the deleted assets out
get_survey_status_unfiltered(survey_date) ==
    LET total == Cardinality(ActiveIds)
        target_date == IF survey_date # <<>> THEN survey_date[1] ELSE date_today
        joined ==
            {p \in (DOMAIN survey_records) \X (DOMAIN pc_master) :
                /\ survey_records[p[1]].asset_number = pc_master[p[2]].asset_number
                /\ func_date(survey_records[p[1]].survey_date) = target_date}
        completed ==
            Cardinality({survey_records[p[1]].asset_number : p \in joined})
    IN  [total |-> total,
         completed |-> completed,
         remaining |-> total - completed,
         completion_rate |-> IF total > 0 THEN Round2(completed, total) ELSE 0]

\* GET /api/v1/admin/survey-status; the optional query parameter survey_date is
\* <<d>> for the date d, or <<>> when it is left out
get_survey_status(survey_date) ==
    LET total == Cardinality(ActiveIds)
        target_date == IF survey_date # <<>> THEN survey_date[1] ELSE date_today
        joined ==
            {p \in (DOMAIN survey_records) \X (DOMAIN pc_master) :
                /\ survey_records[p[1]].asset_number = pc_master[p[2]].asset_number
                /\ func_date(survey_records[p[1]].survey_date) = target_date
                /\ pc_master[p[2]].is_deleted = FALSE}
        completed ==
            Cardinality({survey_records[p[1]].asset_number : p \in joined})
    IN  [total |-> total,
         completed |-> completed,
         remaining |-> total - completed,
         completion_rate |-> IF total > 0 THEN Round2(completed, total) ELSE 0]

\* ORDER BY survey_date DESC of the survey row ids in S (ties: lower id first)
RECURSIVE OrderDesc(_)
OrderDesc(S) ==
    IF S = {} THEN <<>>
    ELSE LET top == CHOOSE i \in S :
                      \A j \in S :
                         \/ survey_records[i].survey_date > survey_records[j].survey_date
                         \/ /\ survey_records[i].survey_date
                                  = survey_records[j].survey_date
                            /\ i <= j
         IN  <<top>> \o OrderDesc(S \ {top})

\* GET /api/v1/admin/survey-history; start and end are dates
get_survey_history(start, end) ==
    LET inRange ==
            {i \in DOMAIN survey_records :
                /\ func_date(survey_records[i].survey_date) >= start
                /\ func_date(survey_records[i].survey_date) <= end}
        ordered == OrderDesc(inRange)
        entry(i) ==
            LET survey == survey_records[i]
                pc == AnyPc(survey.asset_number)   \* outer join, deleted rows too
            IN  [survey_date |-> survey.survey_date,
                 asset_number |-> survey.asset_number,
                 pc_management_number |->
                     IF pc # 0 THEN pc_master[pc].pc_management_number ELSE "-",
                 location_name |->
                     IF pc # 0 THEN pc_master[pc].location_name ELSE "no info",
                 employee_number |->
                     IF pc # 0 THEN pc_master[pc].employee_number ELSE "-"]
    IN  [k \in DOMAIN ordered |-> entry(ordered[k])]

\* GET /api/v1/admin/backup
backup_all_data ==
    [pcs |-> {[asset_number |-> pc_master[i].asset_number,
               pc_management_number |-> pc_master[i].pc_management_number,
               location_name |-> pc_master[i].location_name,
               employee_number |-> pc_master[i].employee_number]
              : i \in ActiveIds},
     surveys |-> [i \in DOMAIN survey_records |->
                     [asset_number |-> survey_records[i].asset_number,
                      survey_date |-> survey_records[i].survey_date]],
     user_changes |-> [i \in DOMAIN user_change_history |->
                          [asset_number |-> user_change_history[i].asset_number,
                           old_employee_number |->
                               user_change_history[i].old_employee_number,
                           new_employee_number |->
                               user_change_history[i].new_employee_number]]]

-----------------------------------------------------------------------------
\* the service with the server processes W
Serve(W) ==
    \/ Tick
    \/ \E w \in W, request \in PCRegisterRequest : register_pc(w, request)
    \/ \E w \in W : register_pc_commit(w)
    \/ \E w \in W, n \in AssetNumbers, request \in PCUpdateUserRequest :
          update_user(w, n, request)
    \/ \E w \in W : update_user_commit(w)
    \/ \E w \in W, n \in AssetNumbers, request \in PCUpdateInfoRequest :
          update_pc_info(w, n, request)
    \/ \E w \in W : update_pc_info_commit(w)
    \/ \E w \in W, request \in SurveyCompleteRequest :
          complete_survey(w, request)
    \/ \E w \in W : complete_survey_commit(w)
    \/ \E w \in W, n \in AssetNumbers : delete_pc(w, n)
    \/ \E w \in W : delete_pc_commit(w)

Next == Serve(Workers)

Spec == Init /\ [][Next]_vars

\* the same service run as one process: its requests are handled one at a
\* time, each accepted only after the one before it was answered
NextSeq == Serve({1})

SpecSeq == Init /\ [][NextSeq]_vars
-----------------------------------------------------------------------------
(* Vocabulary of the properties *)

\* the spec's error taxonomy
Conflict(r) == r.status = 400
NotFound(r) == r = HTTPException(404, "pc not found")

DeletedIds == {i \in DOMAIN pc_master : pc_master[i].is_deleted}

NumbersOf(ids) == {pc_master[i].asset_number : i \in ids}

UniqueActive ==
    \A i, j \in ActiveIds : i # j => pc_master[i].asset_number # pc_master[j].asset_number

-----------------------------------------------------------------------------
\* C1: no two non-deleted pc_master rows ever share an asset_number, and a
\* register_pc request for a number an active row holds answers 400 (Conflict)
\* and leaves all three tables as they were.
C1_OneActivePerNumber ==
    [][ /\ UniqueActive
        /\ UniqueActive'
        /\ \A w \in Workers, request \in PCRegisterRequest :
              (register_pc(w, request) /\ ActivePc(request.asset_number) # 0)
              => /\ Conflict(last')
                 /\ UNCHANGED <<pc_master, survey_records, user_change_history>>
      ]_vars

\* C1 witness: a registration was refused as a duplicate while another asset is
\* soft-deleted (register, delete, register, register again)
C1_Witness ==
    /\ last = HTTPException(400, "asset number already registered")
    /\ ActiveIds # {}
    /\ DeletedIds # {}

\* C2: register_pc for a number that only a soft-deleted row holds either
\* revives that row (same id, is_deleted cleared, the three fields overwritten)
\* or answers Conflict with nothing changed; it never adds a row.
C2_ReviveOrConflict ==
    [][ \A w \in Workers :
          (/\ register_pc_commit(w)
           /\ sess[w].request.asset_number \in NumbersOf(DeletedIds))
          => LET request == sess[w].request
                 id == AnyPc(request.asset_number)
             IN  /\ Len(pc_master') = Len(pc_master)
                 /\ \/ /\ last' = Success("pc revived")
                       /\ pc_master' =
                            [pc_master EXCEPT ![id] = PCMaster(request)]
                    \/ /\ Conflict(last')
                       /\ pc_master' = pc_master
      ]_vars

\* C3: there is at most one survey_records row per asset_number per calendar
\* day, the day being the date part of the stored survey_date.
C3_OneSurveyPerDay ==
    \A i, j \in DOMAIN survey_records :
        (/\ i # j
         /\ survey_records[i].asset_number = survey_records[j].asset_number)
        => func_date(survey_records[i].survey_date)
              # func_date(survey_records[j].survey_date)

\* a survey of asset n taken on the calendar day of the present moment, by the
\* UTC calendar and by the server's local calendar alike
SurveyedThisDay(n) ==
    \E i \in DOMAIN survey_records :
        /\ survey_records[i].asset_number = n
        /\ func_date(survey_records[i].survey_date) = func_date(now)
        /\ (survey_records[i].survey_date + tz) \div 2 = date_today

\* C4: requests handled one after the other: complete_survey for an active
\* asset already surveyed on the same calendar day answers Conflict and inserts
\* nothing; with no survey of that day (the first call, or a call on the next
\* day) it is accepted and its commit inserts exactly one row.
C4_SecondSameDayConflicts ==
    [][ /\ \A w \in Workers, request \in SurveyCompleteRequest :
              (complete_survey(w, request) /\ ActivePc(request.asset_number) # 0)
              => IF SurveyedThisDay(request.asset_number)
                 THEN Conflict(last') /\ sess'[w] = Idle
                 ELSE sess'[w].op = "complete_survey"
        /\ \A w \in Workers :
              complete_survey_commit(w)
              => /\ last' = Success("survey completed")
                 /\ survey_records' = Append(survey_records, sess[w].survey)
      ]_vars

\* C5: requests handled one after the other: update_pc_info renaming an active
\* asset OLD to a number NEW that no row holds goes through, whatever rows the
\* other two tables hold for OLD; when it has committed, every row that
\* referenced OLD references NEW, none references OLD, get_pc_info(OLD) is 404
\* and get_pc_info(NEW) is the asset.
C5_RenameCascades ==
    [][ /\ \A w \in Workers, n \in AssetNumbers, request \in PCUpdateInfoRequest :
              (/\ update_pc_info(w, n, request)
               /\ ActivePc(n) # 0
               /\ request.new_asset_number \in AssetNumbers \ {n}
               /\ AnyPc(request.new_asset_number) = 0)
              => sess'[w].op = "update_pc_info"
        /\ \A w \in Workers, old \in AssetNumbers, new \in AssetNumbers,
                 pc \in DOMAIN pc_master :
              (/\ update_pc_info_commit(w)
               /\ old # new
               /\ sess[w].asset_number = old
               /\ sess[w].assigned.asset_number = new
               /\ sess[w].pc = pc)
              =>     /\ last' = Success("pc info updated")
                     /\ survey_records' =
                            Rewritten(survey_records,
                                      Matching(survey_records, old), new)
                     /\ user_change_history' =
                            Rewritten(user_change_history,
                                      Matching(user_change_history, old), new)
                     /\ Matching(survey_records', old) = {}
                     /\ Matching(user_change_history', old) = {}
                     /\ NotFound(get_pc_info(old)')
                     /\ get_pc_info(new)' = PCResponse(pc)'
      ]_vars

\* C6: a successful update_user commit appends exactly one user_change_history
\* row {asset, old, new}, where old is the employee_number the asset row held
\* when the commit replaced it, and leaves the row's employee_number = new.
C6_EventRecordsReplacedValue ==
    [][ \A w \in Workers :
          (update_user_commit(w) /\ last' = Success("user changed"))
          => LET pc == sess[w].pc
                 new == sess[w].history.new_employee_number
             IN  /\ user_change_history' =
                        Append(user_change_history,
                               UserChangeHistory(sess[w].asset_number,
                                                 pc_master[pc].employee_number,
                                                 new))
                 /\ pc_master' = [pc_master EXCEPT ![pc].employee_number = new]
      ]_vars

\* the calendar days the clock can show, in UTC or on the server
Dates == 0 .. ((MaxTime + 1) \div 2)

\* C7: for every date d (and for the default, today) get_survey_status returns
\* total = the number of non-deleted assets, completed = the number of
\* non-deleted assets with a survey dated d, remaining = total - completed with
\* 0 <= completed <= total, and a completion_rate of 0 when total = 0 and of
\* 100.00 when completed = total > 0.
C7_SurveyStatus ==
    \A q \in {<<>>} \cup {<<d>> : d \in Dates} :
        LET status == get_survey_status(q)
            day == IF q = <<>> THEN date_today ELSE q[1]
            surveyed ==
                {i \in ActiveIds :
                    \E j \in DOMAIN survey_records :
                        /\ survey_records[j].asset_number = pc_master[i].asset_number
                        /\ func_date(survey_records[j].survey_date) = day}
        IN  /\ status.total = Cardinality(ActiveIds)
            /\ status.completed = Cardinality(surveyed)
            /\ status.remaining = status.total - status.completed
            /\ 0 <= status.completed /\ status.completed <= status.total
            /\ status.total = 0 => status.completion_rate = 0
            /\ (status.total > 0 /\ status.completed = status.total)
                  => status.completion_rate = 10000

\* C7 witness: a deleted asset has left a survey dated d behind, an active asset
\* has none, and the status of d counts one asset and no completed survey
C7_Witness ==
    \E d \in Dates, i \in DeletedIds :
        /\ SurveyOn(pc_master[i].asset_number, d) # 0
        /\ get_survey_status(<<d>>).total = 1
        /\ get_survey_status(<<d>>).completed = 0

Max(S) == CHOOSE i \in S : \A j \in S : j <= i

\* the audit trail of every active asset that has one ends in the asset's
\* current employee_number and is a chain: each event's old_employee_number is
\* the new_employee_number of the event before it
AuditTrailConsistent ==
    \A i \in ActiveIds :
        LET trail == Matching(user_change_history, pc_master[i].asset_number) IN
        trail # {} =>
            /\ user_change_history[Max(trail)].new_employee_number
                  = pc_master[i].employee_number
            /\ \A k, l \in trail :
                  (k < l /\ ~\E m \in trail : k < m /\ m < l)
                  => user_change_history[l].old_employee_number
                        = user_change_history[k].new_employee_number

\* the step is an update_pc_info commit that changes an asset's employee_number
EmployeeOverwritten ==
    \E w \in Workers :
        /\ update_pc_info_commit(w)
        /\ pc_master'[sess[w].pc].employee_number
              # pc_master[sess[w].pc].employee_number

\* C10 as stated: after any sequence of calls the audit trail of every active
\* asset is consistent with the asset's employee_number and with itself.
C10_AuditTrailAlwaysConsistent == AuditTrailConsistent

\* C10 as amended: with requests handled one at a time, the audit trail is
\* consistent in the empty store and stays consistent across every step except
\* an update_pc_info commit that changes an asset's employee_number.
C10_AuditTrailKeptByAllButAdminEdit ==
    [][ /\ requests = 0 => AuditTrailConsistent
        /\ (AuditTrailConsistent /\ ~EmployeeOverwritten) => AuditTrailConsistent'
      ]_vars

\* C10 witness: an active asset reassigned twice, E1 -> E2 -> E1
C10_Witness ==
    /\ AuditTrailConsistent
    /\ \E i \in ActiveIds :
          /\ Cardinality(Matching(user_change_history, pc_master[i].asset_number)) = 2
          /\ user_change_history[1].new_employee_number
                # user_change_history[2].new_employee_number

=============================================================================
